---- MODULE Spec2Model ----
(***************************************************************************)
(* Model of the in-memory demo data store of myshop-backend                *)
(* (src/myshop_backend/api/storage.py, class DemoDataStore): the ingestion *)
(* records, their time-driven recomputation, cancellation, selection and   *)
(* finalization, the asset catalog and the user-store links.               *)
(*                                                                         *)
(* Time is counted in ticks of 1/TicksPerSecond second.  `now` is the      *)
(* value timezone.now() returns; it only moves forward.                    *)
(***************************************************************************)
EXTENDS Integers, Sequences, FiniteSets, TLC

VARIABLES
    now,               \* timezone.now(), in ticks
    ingestions,        \* self.ingestions: id -> IngestionRecord, NoRecord if absent
    assets,            \* self.assets: asset id -> asset
    user_store_links,  \* self.user_store_links: user id -> list of store ids
    poster_jobs,       \* self.poster_jobs: id -> job, NoRecord if absent
    menu_board_jobs,   \* self.menu_board_jobs: id -> job, NoRecord if absent
    call,              \* the last call: operation, id, status of its record before
    ret,               \* what the last call returned
    requests           \* the two requests followed statement by statement: where
                       \* each stands and the elapsed time it has read

vars == <<now, ingestions, assets, user_store_links, poster_jobs, menu_board_jobs,
          call, ret, requests>>

----------------------------------------------------------------------------
(* Bounds of the model.                                                    *)

\* Last clock value explored, in ticks (a little over the 50 s total).
MaxClock == 104

\* start_ingestion is only called while the clock is at most this, in ticks.
MaxStartClock == 1

----------------------------------------------------------------------------
(* Resolution of the clock and the program's constants.                    *)

\* Ticks per second: the resolution at which total_seconds() is observed.
TicksPerSecond == 2

\* step_durations, in seconds.
step_durations == <<8, 10, 12, 20>>

\* The ids a record may get from _uid("ing").
IngestionIds == {"ing_1"}

\* An ingestion id no record ever gets: what a caller may still ask for.
MissingIngestionIds == {"ing_0"}

\* The ids a job may get from _uid("poster_job") and _uid("menu_job"), by kind
\* of job, and for each kind an id no job ever gets.
JobIds == [poster |-> {"poster_job_1"}, menu |-> {"menu_job_1"}]
MissingJobIds == [poster |-> {"poster_job_0"}, menu |-> {"menu_job_0"}]

JobKinds == {"poster", "menu"}

\* The store ids start_ingestion is called with.
StoreIds == {"s1", "s3"}

\* The categories of _build_ingestion_assets, in order.
categories == <<"logo", "menu", "products", "interior">>

\* range(1, 3), the variants of each category.
variants == <<"1", "2">>

NoRecord == [absent |-> TRUE]
None == [none |-> TRUE]

Min(a, b) == IF a <= b THEN a ELSE b
Max(a, b) == IF a >= b THEN a ELSE b

\* set(selected_ids)
ToSet(seq) == {seq[i] : i \in DOMAIN seq}

----------------------------------------------------------------------------
(* Asset ids.  An id f"{category_id}_{variant}_{store_id}" is kept as the  *)
(* tuple of its parts; the parts of "logo_1_s1" are <<"logo","1","s1">>.   *)

AssetId(category_id, variant, store_id) == <<category_id, variant, store_id>>

\* asset_id.split("_", 1)[0] for an id with an underscore, else "products";
\* ingestion assets carry no "category" key.
group_id_from_asset(asset) ==
    IF Len(asset.id) > 1 THEN asset.id[1] ELSE "products"

\* _build_ingestion_assets: one group per category, two variants each, the
\* first variant pre-selected.
build_ingestion_assets(store_id) ==
    [g \in 1..Len(categories) |->
        [id |-> categories[g],
         assets |-> [v \in 1..Len(variants) |->
                        [id |-> AssetId(categories[g], variants[v], store_id),
                         selected |-> (v = 1)]]]]

\* _seed_assets: four assets for each of the first two stores.
seed_assets ==
    [a \in {<<categories[c], s>> : c \in 1..Len(categories), s \in {"s1", "s2"}} |->
        [id |-> a, category |-> a[1], storeId |-> a[2]]]

----------------------------------------------------------------------------
(* The step schedule of _refresh_ingestion_progress.                       *)

\* cumulative after the first i durations: progress_points[i - 1].
RECURSIVE progress_point(_)
progress_point(i) ==
    IF i = 0 THEN 0 ELSE progress_point(i - 1) + step_durations[i]

\* progress_points, in seconds: <<8, 18, 30, 50>>.
progress_points == [i \in 1..Len(step_durations) |-> progress_point(i)]

\* total_time = progress_points[-1], in seconds.
total_time == progress_points[Len(progress_points)]

\* Mutant: the comparison written elapsed > cutoff.
reached_strictly(elapsed, cutoff) == elapsed > cutoff * TicksPerSecond

\* elapsed >= cutoff, elapsed in ticks and cutoff in seconds.
reached(elapsed, cutoff) == elapsed >= cutoff * TicksPerSecond

\* The elapsed times, as twice the number of seconds, at which the float
\* product (elapsed / 50) * 100 falls just below the whole number 2 * elapsed:
\* 14.5 s, 28.5 s and 29.0 s (0.29 * 100 = 28.999999999999996, and so on).
\* At every other time below 50 s, int() of the float equals the exact floor.
float_shortfall == {29, 57, 58}

\* int((elapsed / total_time) * 100), elapsed in ticks.
int_percent(elapsed) ==
    LET exact == (elapsed * 100) \div (total_time * TicksPerSecond)
    IN  IF \E h \in float_shortfall : 2 * elapsed = h * TicksPerSecond
        THEN exact - 1
        ELSE exact

\* int(total_time - elapsed) for 0 <= elapsed < total_time, elapsed in ticks.
int_remaining(elapsed) ==
    (total_time * TicksPerSecond - elapsed) \div TicksPerSecond

\* Mutant: a step whose cutoff is reached is passed over without being marked
\* completed.
RECURSIVE refresh_steps_uncompleted(_, _, _)
refresh_steps_uncompleted(steps, elapsed, idx) ==
    IF idx > Len(progress_points) THEN steps
    ELSE IF reached(elapsed, progress_points[idx])
         THEN refresh_steps_uncompleted(steps, elapsed, idx + 1)
         ELSE IF steps[idx] = "pending"
              THEN [steps EXCEPT ![idx] = "in_progress"]
              ELSE steps

\* The loop over progress_points, from index idx on (idx counts from 1):
\* a step whose cutoff is reached becomes completed and the loop goes on; the
\* first step whose cutoff is not reached becomes in_progress if it was
\* pending, and the loop stops.
RECURSIVE refresh_steps(_, _, _)
refresh_steps(steps, elapsed, idx) ==
    IF idx > Len(progress_points) THEN steps
    ELSE IF reached(elapsed, progress_points[idx])
         THEN refresh_steps([steps EXCEPT ![idx] = "completed"], elapsed, idx + 1)
         ELSE IF steps[idx] = "pending"
              THEN [steps EXCEPT ![idx] = "in_progress"]
              ELSE steps

all_completed(steps) == [i \in DOMAIN steps |-> "completed"]

\* Mutant: the progress is not held at 95.
running_progress_uncapped(elapsed) == int_percent(elapsed)

\* record.progress = min(95, int((elapsed / total_time) * 100))
running_progress(elapsed) == Min(95, int_percent(elapsed))

\* record.estimated_seconds_remaining = max(10, int(total_time - elapsed))
running_remaining(elapsed) == Max(10, int_remaining(elapsed))

\* Mutant: the clock is read a second time, one tick later, for the progress
\* and the remaining time.
recompute_two_readings(record, clock) ==
    LET elapsed == clock - record.started_at
        stepped == refresh_steps(record.steps, elapsed, 1)
    IN  IF reached(elapsed, total_time)
        THEN [record EXCEPT !.status = "completed",
                            !.progress = 100,
                            !.estimated_seconds_remaining = 0,
                            !.steps = all_completed(stepped)]
        ELSE [record EXCEPT !.steps = stepped,
                            !.progress = running_progress(elapsed + 1),
                            !.estimated_seconds_remaining = running_remaining(elapsed + 1)]

\* _refresh_ingestion_progress past its first check: elapsed is read once
\* from the clock, the steps are walked, then either the record is completed
\* or its progress and remaining time are set.
recompute(record, clock) ==
    LET elapsed == clock - record.started_at
        stepped == refresh_steps(record.steps, elapsed, 1)
    IN  IF reached(elapsed, total_time)
        THEN [record EXCEPT !.status = "completed",
                            !.progress = 100,
                            !.estimated_seconds_remaining = 0,
                            !.steps = all_completed(stepped)]
        ELSE [record EXCEPT !.steps = stepped,
                            !.progress = running_progress(elapsed),
                            !.estimated_seconds_remaining = running_remaining(elapsed)]

\* Mutant: the early return on a status other than in_progress is missing.
refresh_ingestion_progress_unguarded(record, clock) == recompute(record, clock)

\* Mutant: only a completed record is left alone, and the status is derived
\* again from the elapsed time on every call.
refresh_ingestion_progress_rederived(record, clock) ==
    IF record.status = "completed" THEN record
    ELSE [recompute(record, clock) EXCEPT !.status =
            IF reached(clock - record.started_at, total_time)
            THEN "completed" ELSE "in_progress"]

\* _refresh_ingestion_progress(record) with timezone.now() = clock.
refresh_ingestion_progress(record, clock) ==
    IF record.status # "in_progress" THEN record ELSE recompute(record, clock)

----------------------------------------------------------------------------
(* Records.                                                                *)

\* The steps list of start_ingestion.
initial_steps == <<"in_progress", "pending", "pending", "pending">>

\* The IngestionRecord start_ingestion builds; started_at defaults to
\* timezone.now(), selected_asset_ids to the empty set.
new_record(ingestion_id, store_id, clock) ==
    [id |-> ingestion_id,
     store_id |-> store_id,
     status |-> "in_progress",
     progress |-> 5,
     steps |-> initial_steps,
     estimated_seconds_remaining |-> 90,
     started_at |-> clock,
     selected_asset_ids |-> {},
     asset_groups |-> build_ingestion_assets(store_id)]

\* Mutant: the progress is left as it was.
canceled_progress_uncapped(progress) == progress

\* min(record.progress, 80)
canceled_progress(progress) == Min(progress, 80)

\* Mutant: every step is marked canceled, whatever its status.
canceled_steps_all(steps) == [i \in DOMAIN steps |-> "canceled"]

\* Mutant: the steps still pending are marked canceled as well.
canceled_steps_with_pending(steps) ==
    [i \in DOMAIN steps |->
        IF steps[i] \in {"in_progress", "pending"} THEN "canceled" ELSE steps[i]]

\* The for loop of cancel_ingestion over record.steps.
canceled_steps(steps) ==
    [i \in DOMAIN steps |-> IF steps[i] = "in_progress" THEN "canceled" ELSE steps[i]]

\* Mutant: the remaining seconds are left as they were.
canceled_record_keeps_remaining(record) ==
    [record EXCEPT !.status = "canceled",
                   !.progress = canceled_progress(record.progress),
                   !.steps = canceled_steps(record.steps)]

\* Mutant: the record is recomputed from the clock first, and a record that
\* this completes is left completed.
canceled_record_refreshed(record) ==
    LET fresh == refresh_ingestion_progress(record, now)
    IN  IF fresh.status = "completed" THEN fresh
        ELSE [fresh EXCEPT !.status = "canceled",
                           !.estimated_seconds_remaining = 0,
                           !.progress = canceled_progress(fresh.progress),
                           !.steps = canceled_steps(fresh.steps)]

\* The body of cancel_ingestion on a record that exists.
canceled_record(record) ==
    [record EXCEPT !.status = "canceled",
                   !.estimated_seconds_remaining = 0,
                   !.progress = canceled_progress(record.progress),
                   !.steps = canceled_steps(record.steps)]

\* asset["selected"] = asset["id"] in record.selected_asset_ids, every asset
\* of every group.
reselect(asset_groups, selected) ==
    [g \in DOMAIN asset_groups |->
        [asset_groups[g] EXCEPT !.assets =
            [a \in DOMAIN asset_groups[g].assets |->
                [asset_groups[g].assets[a] EXCEPT !.selected =
                    (asset_groups[g].assets[a].id \in selected)]]]]

\* Mutant: the new ids are merged into the previous selection.
selected_record_merged(record, selected_ids) ==
    [record EXCEPT !.selected_asset_ids = record.selected_asset_ids \cup ToSet(selected_ids),
                   !.asset_groups = reselect(record.asset_groups,
                                             record.selected_asset_ids \cup ToSet(selected_ids))]

\* The body of record_selection on a record that exists.
selected_record(record, selected_ids) ==
    [record EXCEPT !.selected_asset_ids = ToSet(selected_ids),
                   !.asset_groups = reselect(record.asset_groups, ToSet(selected_ids))]

\* The assets of all groups, in order: the two nested for loops.
RECURSIVE all_assets(_, _)
all_assets(asset_groups, g) ==
    IF g > Len(asset_groups) THEN <<>>
    ELSE asset_groups[g].assets \o all_assets(asset_groups, g + 1)

\* Mutant: only the id set decides.
is_promoted_by_id(record, asset) == asset.id \in record.selected_asset_ids

\* asset["id"] in record.selected_asset_ids or asset.get("selected")
is_promoted(record, asset) ==
    asset.id \in record.selected_asset_ids \/ asset.selected

\* selected_assets of finalize_ingestion.
selected_assets(record) ==
    SelectSeq(all_assets(record.asset_groups, 1), LAMBDA asset : is_promoted(record, asset))

\* asset_copy (name and url, which never change, are left out).
asset_copy(record, asset) ==
    [id |-> asset.id, category |-> group_id_from_asset(asset), storeId |-> record.store_id]

\* self.assets after the loop self.assets[asset_copy["id"]] = asset_copy.
promoted_catalog(catalog, record) ==
    LET chosen == selected_assets(record)
        ids == {chosen[i].id : i \in DOMAIN chosen}
    IN  [a \in DOMAIN catalog \cup ids |->
            IF a \in ids
            THEN asset_copy(record, CHOOSE x \in ToSet(chosen) : x.id = a)
            ELSE catalog[a]]

\* Mutant: a canceled record is left as it is.
finalized_record_unless_canceled(record) ==
    IF record.status = "canceled" THEN record
    ELSE [record EXCEPT !.status = "completed",
                        !.progress = 100,
                        !.estimated_seconds_remaining = 0,
                        !.steps = all_completed(record.steps)]

\* The fields finalize_ingestion forces on the record.
finalized_record(record) ==
    [record EXCEPT !.status = "completed",
                   !.progress = 100,
                   !.estimated_seconds_remaining = 0,
                   !.steps = all_completed(record.steps)]

\* Mutant: the store id is appended whether or not it is there.
link_store_again(links, user_id, store_id) == Append(links[user_id], store_id)

\* Mutant: the list is replaced by the one store id.
link_store_only(links, user_id, store_id) == <<store_id>>

\* link_store on a user of user_store_links: append unless already there.
link_store(links, user_id, store_id) ==
    IF \E i \in DOMAIN links[user_id] : links[user_id][i] = store_id
    THEN links[user_id]
    ELSE Append(links[user_id], store_id)

\* link_store_for_asset: link_store for every user of user_store_links.
link_store_for_asset(links, store_id) ==
    [u \in DOMAIN links |-> link_store(links, u, store_id)]

----------------------------------------------------------------------------
(* The operations of the store.                                            *)

\* self.ingestions.get(ingestion_id) finds a record.
known(ingestion_id) == ingestions[ingestion_id] # NoRecord

\* The status of the record a call is about to work on.
status_of(ingestion_id) ==
    IF known(ingestion_id) THEN ingestions[ingestion_id].status ELSE "none"

called(op, ingestion_id) ==
    [op |-> op, id |-> ingestion_id, before |-> status_of(ingestion_id)]

Init ==
    /\ now = 0
    /\ ingestions = [i \in IngestionIds \cup MissingIngestionIds |-> NoRecord]
    /\ assets = seed_assets
    /\ user_store_links = <<>>
    /\ poster_jobs = [j \in JobIds.poster \cup MissingJobIds.poster |-> NoRecord]
    /\ menu_board_jobs = [j \in JobIds.menu \cup MissingJobIds.menu |-> NoRecord]
    /\ call = [op |-> "init", id |-> "", before |-> "none"]
    /\ ret = None
    /\ requests = [get |-> [pc |-> "idle", elapsed |-> 0], cancel |-> [pc |-> "idle"]]

\* timezone.now() moves forward.
Tick ==
    /\ now < MaxClock
    /\ now' = now + 1
    /\ UNCHANGED <<ingestions, assets, user_store_links, poster_jobs, menu_board_jobs, call, ret, requests>>

\* start_ingestion(store_id); _uid gives an id not yet in the map.
StartIngestion(ingestion_id, store_id) ==
    /\ ~known(ingestion_id)
    /\ now <= MaxStartClock
    /\ ingestions' = [ingestions EXCEPT ![ingestion_id] = new_record(ingestion_id, store_id, now)]
    /\ call' = called("start_ingestion", ingestion_id)
    /\ ret' = ingestions'[ingestion_id]
    /\ UNCHANGED <<now, assets, user_store_links, poster_jobs, menu_board_jobs, requests>>

\* get_ingestion(ingestion_id)
GetIngestion(ingestion_id) ==
    /\ call' = called("get_ingestion", ingestion_id)
    /\ IF ~known(ingestion_id)
       THEN /\ ret' = None
            /\ UNCHANGED ingestions
       ELSE /\ ingestions' = [ingestions EXCEPT ![ingestion_id] =
                                 refresh_ingestion_progress(ingestions[ingestion_id], now)]
            /\ ret' = ingestions'[ingestion_id]
    /\ UNCHANGED <<now, assets, user_store_links, poster_jobs, menu_board_jobs, requests>>

\* cancel_ingestion(ingestion_id)
CancelIngestion(ingestion_id) ==
    /\ call' = called("cancel_ingestion", ingestion_id)
    /\ IF ~known(ingestion_id)
       THEN /\ ret' = None
            /\ UNCHANGED ingestions
       ELSE /\ ingestions' = [ingestions EXCEPT ![ingestion_id] =
                                 canceled_record(ingestions[ingestion_id])]
            /\ ret' = ingestions'[ingestion_id]
    /\ UNCHANGED <<now, assets, user_store_links, poster_jobs, menu_board_jobs, requests>>

\* record_selection(ingestion_id, selected_ids)
RecordSelection(ingestion_id, selected_ids) ==
    /\ call' = called("record_selection", ingestion_id)
    /\ IF ~known(ingestion_id)
       THEN /\ ret' = None
            /\ UNCHANGED ingestions
       ELSE /\ ingestions' = [ingestions EXCEPT ![ingestion_id] =
                                 selected_record(ingestions[ingestion_id], selected_ids)]
            /\ ret' = ingestions'[ingestion_id].selected_asset_ids
    /\ UNCHANGED <<now, assets, user_store_links, poster_jobs, menu_board_jobs, requests>>

\* finalize_ingestion(ingestion_id)
FinalizeIngestion(ingestion_id) ==
    /\ call' = called("finalize_ingestion", ingestion_id)
    /\ IF ~known(ingestion_id)
       THEN /\ ret' = None
            /\ UNCHANGED <<ingestions, assets, user_store_links>>
       ELSE LET record == finalized_record(ingestions[ingestion_id])
            IN  /\ ingestions' = [ingestions EXCEPT ![ingestion_id] = record]
                /\ assets' = promoted_catalog(assets, record)
                /\ user_store_links' = link_store_for_asset(user_store_links, record.store_id)
                /\ ret' = [assetLibraryId |-> "library_default",
                           totalAssets |-> Len(selected_assets(record))]
    /\ UNCHANGED <<now, poster_jobs, menu_board_jobs, requests>>

\* The lists record_selection is called with: ids of store s1's candidate
\* assets, whatever the record's store (for a record of another store they
\* match no asset); one list names an asset twice, one an id no record has.
SelectionInputs ==
    { <<>>,
      <<AssetId("menu", "1", "s1"), AssetId("logo", "2", "s1"), AssetId("menu", "1", "s1")>>,
      <<AssetId("products", "2", "s1"), <<"ghost">>>> }

Next ==
    \/ Tick
    \/ \E i \in IngestionIds, s \in StoreIds : StartIngestion(i, s)
    \/ \E i \in IngestionIds : GetIngestion(i)
    \/ \E i \in IngestionIds : CancelIngestion(i)
    \/ \E i \in IngestionIds, ids \in SelectionInputs : RecordSelection(i, ids)
    \/ \E i \in IngestionIds : FinalizeIngestion(i)

Spec == Init /\ [][Next]_vars

----------------------------------------------------------------------------
(* Generation jobs: poster jobs and menu board jobs.                       *)

\* Jobs are only created while the clock is at most this, in ticks.
MaxJobStartClock == 1

\* Last clock value explored where jobs are followed, in ticks (a little
\* over the 10 s after which a job has succeeded).
MaxJobClock == 24

\* At most this many assets are created by saving jobs.
MaxSavedAssets == 2

\* The ids _uid("asset") gives, in the order it gives them.
asset_uids == <<"a1", "a2", "a3", "a4">>

\* Mutant: the comparison written elapsed >= seconds.
past_or_at(elapsed, seconds) == elapsed >= seconds * TicksPerSecond

\* elapsed > seconds, elapsed in ticks.
past(elapsed, seconds) == elapsed > seconds * TicksPerSecond

\* The resultUrl of a job: the fixed address followed by the job's id.
result_url(job_id) == <<"result", job_id>>

\* The job create_poster_job and create_menu_board_job build (the payload
\* fields, which no operation changes, are left out).
new_job(job_id, clock) ==
    [id |-> job_id,
     status |-> "queued",
     resultUrl |-> None,
     error |-> None,
     createdAt |-> clock]

\* Mutant: the resultUrl is already written while the job is running.
phased_job_early_url(job, clock) ==
    LET elapsed == clock - job.createdAt
    IN  IF past(elapsed, 10)
        THEN [job EXCEPT !.status = "succeeded", !.resultUrl = result_url(job.id)]
        ELSE IF past(elapsed, 2)
             THEN [job EXCEPT !.status = "running", !.resultUrl = result_url(job.id)]
             ELSE [job EXCEPT !.status = "queued"]

\* Mutant: past 10 s the job is still only running.
phased_job_never_done(job, clock) ==
    IF past(clock - job.createdAt, 2)
    THEN [job EXCEPT !.status = "running"]
    ELSE [job EXCEPT !.status = "queued"]

\* _progress_job past its first check.
phased_job(job, clock) ==
    LET elapsed == clock - job.createdAt
    IN  IF past(elapsed, 10)
        THEN [job EXCEPT !.status = "succeeded", !.resultUrl = result_url(job.id)]
        ELSE IF past(elapsed, 2)
             THEN [job EXCEPT !.status = "running"]
             ELSE [job EXCEPT !.status = "queued"]

\* Mutant: a queued job moves on by one phase for each read.
progress_job_stepwise(job, clock) ==
    IF job.status \in {"failed", "succeeded"} THEN job
    ELSE IF job.status = "queued" /\ phased_job(job, clock).status = "succeeded"
         THEN [job EXCEPT !.status = "running"]
         ELSE phased_job(job, clock)

\* Mutant: only a succeeded job is left alone.
progress_job_failed_revisited(job, clock) ==
    IF job.status = "succeeded" THEN job ELSE phased_job(job, clock)

\* _progress_job(job, kind) with timezone.now() = clock; kind is not read.
progress_job(job, clock) ==
    IF job.status \in {"failed", "succeeded"} THEN job ELSE phased_job(job, clock)

\* Mutant: a job that is not ready is left as it is.
failed_job_unmarked(job) == job

\* save_poster_job / save_menu_board_job on a job that has not succeeded.
failed_job(job) ==
    [job EXCEPT !.status = "failed", !.error = "Job is not finished yet."]

\* The number of assets create_asset has made with an id of its own.
saved_assets(catalog) == Cardinality({a \in DOMAIN catalog : a[1] = "asset"})

\* final_id = _uid("asset")
fresh_asset_id(catalog) == <<"asset", asset_uids[saved_assets(catalog) + 1]>>

\* create_asset(name, category, store_id): self.assets[final_id] = asset
\* (name and url are left out, as for the other assets).
create_asset(catalog, category, store_id) ==
    LET final_id == fresh_asset_id(catalog)
    IN  [a \in DOMAIN catalog \cup {final_id} |->
            IF a = final_id
            THEN [id |-> final_id, category |-> category, storeId |-> store_id]
            ELSE catalog[a]]

\* category="poster" for a poster job, category="menu" for a menu board job.
job_category(kind) == IF kind = "poster" THEN "poster" ELSE "menu"

\* self.poster_jobs or self.menu_board_jobs
job_map(kind) == IF kind = "poster" THEN poster_jobs ELSE menu_board_jobs

\* The job map of the kind becomes new_map, the other one stays.
jobs_become(kind, new_map) ==
    IF kind = "poster"
    THEN poster_jobs' = new_map /\ UNCHANGED menu_board_jobs
    ELSE menu_board_jobs' = new_map /\ UNCHANGED poster_jobs

\* self.poster_jobs.get(job_id) finds a job.
job_known(kind, job_id) == job_map(kind)[job_id] # NoRecord

job_status_of(kind, job_id) ==
    IF job_known(kind, job_id) THEN job_map(kind)[job_id].status ELSE "none"

job_called(poster_op, menu_op, kind, job_id) ==
    [op |-> IF kind = "poster" THEN poster_op ELSE menu_op,
     id |-> job_id,
     before |-> job_status_of(kind, job_id)]

\* create_poster_job(payload) / create_menu_board_job(payload)
CreateJob(kind, job_id) ==
    /\ ~job_known(kind, job_id)
    /\ now <= MaxJobStartClock
    /\ call' = job_called("create_poster_job", "create_menu_board_job", kind, job_id)
    /\ jobs_become(kind, [job_map(kind) EXCEPT ![job_id] = new_job(job_id, now)])
    /\ ret' = new_job(job_id, now)
    /\ UNCHANGED <<now, ingestions, assets, user_store_links, requests>>

\* get_poster_job(job_id) / get_menu_board_job(job_id)
GetJob(kind, job_id) ==
    /\ call' = job_called("get_poster_job", "get_menu_board_job", kind, job_id)
    /\ IF ~job_known(kind, job_id)
       THEN /\ ret' = None
            /\ UNCHANGED <<poster_jobs, menu_board_jobs>>
       ELSE LET job == progress_job(job_map(kind)[job_id], now)
            IN  /\ jobs_become(kind, [job_map(kind) EXCEPT ![job_id] = job])
                /\ ret' = job
    /\ UNCHANGED <<now, ingestions, assets, user_store_links, requests>>

\* Mutant: the answer the views give for the None of save_poster_job.
unknown_job_answer_not_ready == [error |-> "job_not_ready"]

\* The answer of the save views for an id that is not in the job map.
unknown_job_answer == [error |-> "job_not_found"]

\* PosterGenerationSaveView.post / MenuBoardGenerationSaveView.post with
\* save_poster_job / save_menu_board_job: not found when the id is not in the
\* map, not ready (and the job marked failed) when it has not succeeded, else
\* a new asset of store s1 (self.stores[0]) and its id.
SaveJob(kind, job_id) ==
    /\ call' = job_called("save_poster_job", "save_menu_board_job", kind, job_id)
    /\ IF ~job_known(kind, job_id)
       THEN /\ ret' = unknown_job_answer
            /\ UNCHANGED <<poster_jobs, menu_board_jobs, assets>>
       ELSE IF job_map(kind)[job_id].status # "succeeded"
       THEN /\ jobs_become(kind, [job_map(kind) EXCEPT ![job_id] = failed_job(@)])
            /\ ret' = [error |-> "job_not_ready"]
            /\ UNCHANGED assets
       ELSE /\ saved_assets(assets) < MaxSavedAssets
            /\ assets' = create_asset(assets, job_category(kind), "s1")
            /\ ret' = [assetId |-> fresh_asset_id(assets)]
            /\ UNCHANGED <<poster_jobs, menu_board_jobs>>
    /\ UNCHANGED <<now, ingestions, user_store_links, requests>>

\* timezone.now() moves forward, as far as jobs are followed.
JobTick == now < MaxJobClock /\ Tick

NextJobs ==
    \/ JobTick
    \/ \E k \in JobKinds : \E j \in JobIds[k] : CreateJob(k, j)
    \/ \E k \in JobKinds : \E j \in JobIds[k] \cup MissingJobIds[k] : GetJob(k, j)
    \/ \E k \in JobKinds : \E j \in JobIds[k] \cup MissingJobIds[k] : SaveJob(k, j)

\* The jobs alone, at the full resolution of the clock.
SpecJobs == Init /\ [][NextJobs]_vars

----------------------------------------------------------------------------
(* The users and their store links.                                        *)

\* request.user.id of the users that call the store.
UserIds == {1, 2}

\* The store ids users link and unlink by themselves.
LinkedStoreIds == {"s1", "s3"}

\* ensure_user_state: a user without links gets the first store (the
\* preferences, which nothing here reads, are left out).
ensure_user_state(links, user_id) ==
    IF user_id \in DOMAIN links THEN links
    ELSE [u \in DOMAIN links \cup {user_id} |->
            IF u = user_id THEN <<"s1">> ELSE links[u]]

\* DemoDataStore.link_store(user_id, store_id), from the user's state on.
linked(links, user_id, store_id) ==
    LET ensured == ensure_user_state(links, user_id)
    IN  [ensured EXCEPT ![user_id] = link_store(ensured, user_id, store_id)]

\* DemoDataStore.unlink_store(user_id, store_id)
unlinked(links, user_id, store_id) ==
    LET ensured == ensure_user_state(links, user_id)
    IN  [ensured EXCEPT ![user_id] = SelectSeq(@, LAMBDA _id : _id # store_id)]

\* ensure_user_state(user_id), as the login and profile views call it.
EnsureUserState(user_id) ==
    /\ call' = [op |-> "ensure_user_state", id |-> "", before |-> "none"]
    /\ user_store_links' = ensure_user_state(user_store_links, user_id)
    /\ ret' = None
    /\ UNCHANGED <<now, ingestions, assets, poster_jobs, menu_board_jobs, requests>>

\* link_store(user_id, store_id), as the views call it for a store that exists.
LinkStore(user_id, store_id) ==
    /\ call' = [op |-> "link_store", id |-> store_id, before |-> "none"]
    /\ user_store_links' = linked(user_store_links, user_id, store_id)
    /\ ret' = None
    /\ UNCHANGED <<now, ingestions, assets, poster_jobs, menu_board_jobs, requests>>

\* unlink_store(user_id, store_id)
UnlinkStore(user_id, store_id) ==
    /\ call' = [op |-> "unlink_store", id |-> store_id, before |-> "none"]
    /\ user_store_links' = unlinked(user_store_links, user_id, store_id)
    /\ ret' = None
    /\ UNCHANGED <<now, ingestions, assets, poster_jobs, menu_board_jobs, requests>>

\* The clock values looked at when time is followed in leaps: the end of the
\* first step, the end of the third step and the last clock value.
LeapClocks ==
    {progress_point(1) * TicksPerSecond, progress_point(3) * TicksPerSecond, MaxClock}

\* timezone.now() moves forward to one of the clock values looked at.
Leap ==
    /\ \E t \in LeapClocks : t > now /\ now' = t
    /\ UNCHANGED <<ingestions, assets, user_store_links, poster_jobs, menu_board_jobs, call, ret, requests>>

NextLinks ==
    \/ Leap
    \/ \E i \in IngestionIds, s \in StoreIds : StartIngestion(i, s)
    \/ \E i \in IngestionIds : GetIngestion(i)
    \/ \E i \in IngestionIds : CancelIngestion(i)
    \/ \E i \in IngestionIds, ids \in SelectionInputs : RecordSelection(i, ids)
    \/ \E i \in IngestionIds : FinalizeIngestion(i)
    \/ \E u \in UserIds : EnsureUserState(u)
    \/ \E u \in UserIds, s \in LinkedStoreIds : LinkStore(u, s)
    \/ \E u \in UserIds, s \in LinkedStoreIds : UnlinkStore(u, s)

\* The ingestions together with the users, the clock moving in leaps.
SpecLinks == Init /\ [][NextLinks]_vars

----------------------------------------------------------------------------
(* Calls as the views make them: the selection request, and calls with ids *)
(* of records that were never made.                                        *)

\* request.data.get("selectedAssetIds") of the selection requests: two lists,
\* a request without the key, and the string "s1" (whose value is what set()
\* would make of it: its characters).
SelectionPayloads ==
    { [kind |-> "list", value |-> <<>>],
      [kind |-> "list", value |-> <<AssetId("products", "2", "s1"), <<"ghost">>>>],
      [kind |-> "missing", value |-> None],
      [kind |-> "string", value |-> << <<"s">>, <<"1">> >>] }

\* Mutant: a string is let through as well.
valid_selection_or_string(selection) == selection.kind \in {"list", "string"}

\* isinstance(selection, list)
valid_selection(selection) == selection.kind = "list"

\* IngestionSelectionView.post(ingestion_id) with request data whose
\* selectedAssetIds is the payload.
SelectionView(ingestion_id, selection) ==
    /\ call' = called("post_selection", ingestion_id)
    /\ IF ~valid_selection(selection)
       THEN /\ ret' = [error |-> "invalid_payload"]
            /\ UNCHANGED ingestions
       ELSE IF ~known(ingestion_id)
       THEN /\ ret' = [error |-> "ingestion_not_found"]
            /\ UNCHANGED ingestions
       ELSE LET record == selected_record(ingestions[ingestion_id], selection.value)
            IN  /\ ingestions' = [ingestions EXCEPT ![ingestion_id] = record]
                /\ ret' = [selectedAssetIds |-> record.selected_asset_ids]
    /\ UNCHANGED <<now, assets, user_store_links, poster_jobs, menu_board_jobs, requests>>

\* Every id a caller may give for an ingestion, and for a job of a kind.
AskedIngestionIds == IngestionIds \cup MissingIngestionIds
AskedJobIds == [k \in JobKinds |-> JobIds[k] \cup MissingJobIds[k]]

NextCalls ==
    \/ Leap
    \/ EnsureUserState(1)
    \/ \E i \in IngestionIds : StartIngestion(i, "s3")
    \/ \E i \in AskedIngestionIds : GetIngestion(i)
    \/ \E i \in AskedIngestionIds : CancelIngestion(i)
    \/ \E i \in MissingIngestionIds, ids \in SelectionInputs : RecordSelection(i, ids)
    \/ \E i \in AskedIngestionIds : FinalizeIngestion(i)
    \/ \E i \in AskedIngestionIds, p \in SelectionPayloads : SelectionView(i, p)
    \/ \E k \in JobKinds : \E j \in JobIds[k] : CreateJob(k, j)
    \/ \E k \in JobKinds : \E j \in AskedJobIds[k] : GetJob(k, j)
    \/ \E k \in JobKinds : \E j \in AskedJobIds[k] : SaveJob(k, j)

\* Ingestions, jobs and a user together, called with ids of records that
\* exist and of records that do not, the clock moving in leaps.  The
\* selection of a record that exists is made through the selection request.
SpecCalls == Init /\ [][NextCalls]_vars

----------------------------------------------------------------------------
(* The reads that recompute a record from the clock.                       *)

\* The records are made before the clock moves, so that the clock is also the
\* time elapsed for each of them.
NextRecompute ==
    \/ Tick
    \/ \E i \in IngestionIds : now = 0 /\ StartIngestion(i, "s1")
    \/ \E i \in IngestionIds : GetIngestion(i)
    \/ \E k \in JobKinds : \E j \in JobIds[k] : now = 0 /\ CreateJob(k, j)
    \/ \E k \in JobKinds : \E j \in JobIds[k] : GetJob(k, j)

\* An ingestion and the jobs read again and again, at the full resolution of
\* the clock.
SpecRecompute == Init /\ [][NextRecompute]_vars

----------------------------------------------------------------------------
(* A get_ingestion and a cancel_ingestion on the same record, each in a    *)
(* request of its own, followed statement by statement.  The store holds   *)
(* no lock, so the statements of the two requests interleave freely.  Each *)
(* request is made once.                                                   *)

\* The request moves on to the position pc.
get_at(pc) == [requests EXCEPT !.get.pc = pc]
cancel_at(pc) == [requests EXCEPT !.cancel.pc = pc]

\* get_ingestion: record = self.ingestions.get(ingestion_id); if record:
\* _refresh_ingestion_progress: if record.status != "in_progress": return
GetCheckStatus(ingestion_id) ==
    /\ requests.get.pc = "idle"
    /\ known(ingestion_id)
    /\ call' = called("get_ingestion", ingestion_id)
    /\ requests' = get_at(IF ingestions[ingestion_id].status # "in_progress"
                          THEN "done" ELSE "checked")
    /\ UNCHANGED <<now, ingestions, assets, user_store_links, poster_jobs, menu_board_jobs, ret>>

\* elapsed = (timezone.now() - record.started_at).total_seconds()
GetReadClock(ingestion_id) ==
    /\ requests.get.pc = "checked"
    /\ requests' = [requests EXCEPT !.get.pc = "clock_read",
                                    !.get.elapsed = now - ingestions[ingestion_id].started_at]
    /\ UNCHANGED <<now, ingestions, assets, user_store_links, poster_jobs, menu_board_jobs, call, ret>>

\* The loop over progress_points, on the steps as they are now.
GetWriteSteps(ingestion_id) ==
    /\ requests.get.pc = "clock_read"
    /\ ingestions' = [ingestions EXCEPT ![ingestion_id].steps =
                         refresh_steps(@, requests.get.elapsed, 1)]
    /\ requests' = get_at("steps_written")
    /\ UNCHANGED <<now, assets, user_store_links, poster_jobs, menu_board_jobs, call, ret>>

\* if elapsed >= total_time: the record is completed; else progress and the
\* remaining seconds are written.
GetWriteSummary(ingestion_id) ==
    /\ requests.get.pc = "steps_written"
    /\ ingestions' = [ingestions EXCEPT ![ingestion_id] =
          IF reached(requests.get.elapsed, total_time)
          THEN [@ EXCEPT !.status = "completed",
                         !.progress = 100,
                         !.estimated_seconds_remaining = 0,
                         !.steps = all_completed(@)]
          ELSE [@ EXCEPT !.progress = running_progress(requests.get.elapsed),
                         !.estimated_seconds_remaining =
                             running_remaining(requests.get.elapsed)]]
    /\ requests' = get_at("done")
    /\ UNCHANGED <<now, assets, user_store_links, poster_jobs, menu_board_jobs, call, ret>>

\* cancel_ingestion: record = self.ingestions.get(ingestion_id); if record:
CancelLookup(ingestion_id) ==
    /\ requests.cancel.pc = "idle"
    /\ known(ingestion_id)
    /\ call' = called("cancel_ingestion", ingestion_id)
    /\ requests' = cancel_at("found")
    /\ UNCHANGED <<now, ingestions, assets, user_store_links, poster_jobs, menu_board_jobs, ret>>

\* record.status = "canceled"
CancelWriteStatus(ingestion_id) ==
    /\ requests.cancel.pc = "found"
    /\ ingestions' = [ingestions EXCEPT ![ingestion_id].status = "canceled"]
    /\ requests' = cancel_at("status_written")
    /\ UNCHANGED <<now, assets, user_store_links, poster_jobs, menu_board_jobs, call, ret>>

\* record.estimated_seconds_remaining = 0
CancelWriteRemaining(ingestion_id) ==
    /\ requests.cancel.pc = "status_written"
    /\ ingestions' = [ingestions EXCEPT ![ingestion_id].estimated_seconds_remaining = 0]
    /\ requests' = cancel_at("remaining_written")
    /\ UNCHANGED <<now, assets, user_store_links, poster_jobs, menu_board_jobs, call, ret>>

\* record.progress = min(record.progress, 80)
CancelWriteProgress(ingestion_id) ==
    /\ requests.cancel.pc = "remaining_written"
    /\ ingestions' = [ingestions EXCEPT ![ingestion_id].progress = canceled_progress(@)]
    /\ requests' = cancel_at("progress_written")
    /\ UNCHANGED <<now, assets, user_store_links, poster_jobs, menu_board_jobs, call, ret>>

\* The loop over record.steps.
CancelWriteSteps(ingestion_id) ==
    /\ requests.cancel.pc = "progress_written"
    /\ ingestions' = [ingestions EXCEPT ![ingestion_id].steps = canceled_steps(@)]
    /\ requests' = cancel_at("done")
    /\ UNCHANGED <<now, assets, user_store_links, poster_jobs, menu_board_jobs, call, ret>>

NextRace ==
    \/ Leap
    \/ \E i \in IngestionIds : StartIngestion(i, "s1")
    \/ \E i \in IngestionIds : GetCheckStatus(i)
    \/ \E i \in IngestionIds : GetReadClock(i)
    \/ \E i \in IngestionIds : GetWriteSteps(i)
    \/ \E i \in IngestionIds : GetWriteSummary(i)
    \/ \E i \in IngestionIds : CancelLookup(i)
    \/ \E i \in IngestionIds : CancelWriteStatus(i)
    \/ \E i \in IngestionIds : CancelWriteRemaining(i)
    \/ \E i \in IngestionIds : CancelWriteProgress(i)
    \/ \E i \in IngestionIds : CancelWriteSteps(i)

\* One get_ingestion and one cancel_ingestion on the same record, their
\* statements interleaved, the clock moving in leaps.
SpecRace == Init /\ [][NextRace]_vars

----------------------------------------------------------------------------
(* The workflows when the clock keeps moving and the reads keep coming.    *)

NextLive ==
    \/ Leap
    \/ \E i \in IngestionIds, s \in StoreIds : StartIngestion(i, s)
    \/ \E i \in IngestionIds : GetIngestion(i)
    \/ \E i \in IngestionIds : CancelIngestion(i)
    \/ \E k \in JobKinds : \E j \in JobIds[k] : CreateJob(k, j)
    \/ \E k \in JobKinds : \E j \in JobIds[k] : GetJob(k, j)
    \/ \E k \in JobKinds : \E j \in JobIds[k] : SaveJob(k, j)

\* The clock moves on as long as it can, and a get_ingestion or a get of a
\* job that would change something is eventually made.
Fairness ==
    /\ WF_vars(Leap)
    /\ \A i \in IngestionIds : WF_vars(GetIngestion(i))
    /\ \A k \in JobKinds : \A j \in JobIds[k] : WF_vars(GetJob(k, j))

SpecLive == Init /\ [][NextLive]_vars /\ Fairness

----------------------------------------------------------------------------
(* Properties of the ingestion records.                                    *)

Terminal == {"canceled", "completed"}

\* now - record.started_at for a record that exists, in ticks.
elapsed_of(i) == now - ingestions[i].started_at

\* The assets of all groups of record i, as a set.
assets_of(record) ==
    {record.asset_groups[g].assets[a] :
        g \in DOMAIN record.asset_groups, a \in 1..Len(variants)}

\* C1: progress never decreases while an ingestion is in_progress: over any
\* step that starts and ends with the record in_progress, the progress at the
\* end is at least the progress at the start (so the first get_ingestion never
\* shows less than the 5 start_ingestion set).
C1_ProgressNeverDecreases ==
    [][\A i \in IngestionIds :
        (known(i) /\ ingestions[i].status = "in_progress"
                  /\ ingestions'[i].status = "in_progress")
        => ingestions'[i].progress >= ingestions[i].progress]_vars

\* C2: get_ingestion on an in_progress record less than 8 s after its start
\* leaves the first step in_progress, the other three pending, and the
\* progress in [5, 16).
C2_FirstEightSeconds ==
    [][\A i \in IngestionIds :
        (GetIngestion(i) /\ status_of(i) = "in_progress"
                         /\ elapsed_of(i) < 8 * TicksPerSecond)
        => /\ ingestions'[i].steps = <<"in_progress", "pending", "pending", "pending">>
           /\ ingestions'[i].progress >= 5
           /\ ingestions'[i].progress < 16]_vars

\* C3: get_ingestion on an in_progress record completes it (status completed,
\* progress 100, remaining 0, every step completed) when at least 50 s have
\* elapsed, exactly 50 s included, and leaves it in_progress before that.
C3_CompletesAtFifty ==
    [][\A i \in IngestionIds :
        (GetIngestion(i) /\ status_of(i) = "in_progress")
        => IF elapsed_of(i) >= 50 * TicksPerSecond
           THEN /\ ingestions'[i].status = "completed"
                /\ ingestions'[i].progress = 100
                /\ ingestions'[i].estimated_seconds_remaining = 0
                /\ \A k \in 1..4 : ingestions'[i].steps[k] = "completed"
           ELSE ingestions'[i].status = "in_progress"]_vars

\* C3 witness: a get_ingestion found the record in_progress at exactly 50 s
\* and completed it.
C3_Witness ==
    \E i \in IngestionIds :
        /\ known(i)
        /\ call = [op |-> "get_ingestion", id |-> i, before |-> "in_progress"]
        /\ elapsed_of(i) = 50 * TicksPerSecond
        /\ ingestions[i].status = "completed"

\* C4: cancel_ingestion on an in_progress record sets status canceled and
\* remaining 0, caps the progress at 80, turns the in_progress step into
\* canceled and leaves completed and pending steps as they were.
C4_CancelInProgress ==
    [][\A i \in IngestionIds :
        (CancelIngestion(i) /\ status_of(i) = "in_progress")
        => /\ ingestions'[i].status = "canceled"
           /\ ingestions'[i].estimated_seconds_remaining = 0
           /\ ingestions'[i].progress =
                  IF ingestions[i].progress > 80 THEN 80 ELSE ingestions[i].progress
           /\ \A k \in 1..4 :
                  ingestions'[i].steps[k] =
                      IF ingestions[i].steps[k] = "in_progress"
                      THEN "canceled" ELSE ingestions[i].steps[k]]_vars

\* C4 witness: a record canceled while its second step ran: the first step is
\* still completed, the second canceled, the last two still pending.
C4_Witness ==
    \E i \in IngestionIds :
        /\ known(i)
        /\ call = [op |-> "cancel_ingestion", id |-> i, before |-> "in_progress"]
        /\ ingestions[i].status = "canceled"
        /\ ingestions[i].steps = <<"completed", "canceled", "pending", "pending">>
        /\ ingestions[i].progress <= 80

\* C5: get_ingestion on a canceled or completed record leaves its status,
\* progress, remaining time and steps as they were, whatever the clock.
C5_TerminalFrozen ==
    [][\A i \in IngestionIds :
        (GetIngestion(i) /\ status_of(i) \in Terminal)
        => /\ ingestions'[i].status = ingestions[i].status
           /\ ingestions'[i].progress = ingestions[i].progress
           /\ ingestions'[i].estimated_seconds_remaining =
                  ingestions[i].estimated_seconds_remaining
           /\ ingestions'[i].steps = ingestions[i].steps]_vars

\* C5 witness: a get_ingestion more than 50 s after the start returned a
\* record that was canceled before its first step ended.
C5_Witness ==
    \E i \in IngestionIds :
        /\ known(i)
        /\ call = [op |-> "get_ingestion", id |-> i, before |-> "canceled"]
        /\ elapsed_of(i) > 50 * TicksPerSecond
        /\ ingestions[i].status = "canceled"
        /\ ingestions[i].steps = <<"canceled", "pending", "pending", "pending">>

\* C6 as stated: once a step is completed or canceled it keeps that status
\* over every step of the store.
C6_StepsNeverChangeOnceDone ==
    [][\A i \in IngestionIds : \A k \in 1..4 :
        (known(i) /\ ingestions[i].steps[k] \in {"completed", "canceled"})
        => ingestions'[i].steps[k] = ingestions[i].steps[k]]_vars

\* C6 as amended: a completed step stays completed; a canceled step stays
\* canceled under get_ingestion, cancel_ingestion and record_selection, and
\* only finalize_ingestion changes it, to completed.
C6_StepsMonotonicButFinalize ==
    [][\A i \in IngestionIds : \A k \in 1..4 :
        known(i) =>
          /\ ingestions[i].steps[k] = "completed"
                => ingestions'[i].steps[k] = "completed"
          /\ ingestions[i].steps[k] = "canceled"
                => \/ ingestions'[i].steps[k] = "canceled"
                   \/ /\ FinalizeIngestion(i)
                      /\ ingestions'[i].steps[k] = "completed"]_vars

\* C6 witness: a get_ingestion past 50 s on a canceled record: its completed
\* step and its canceled step are both still there.
C6_Witness ==
    \E i \in IngestionIds :
        /\ known(i)
        /\ call = [op |-> "get_ingestion", id |-> i, before |-> "canceled"]
        /\ elapsed_of(i) >= 50 * TicksPerSecond
        /\ ingestions[i].steps = <<"completed", "completed", "canceled", "pending">>

\* C7: in every reachable state a record has at most one step in_progress.
C7_AtMostOneInProgress ==
    \A i \in IngestionIds :
        known(i) =>
            Cardinality({k \in 1..4 : ingestions[i].steps[k] = "in_progress"}) <= 1

\* C7 witness: a get_ingestion moved the in_progress mark to the third step.
C7_Witness ==
    \E i \in IngestionIds :
        /\ known(i)
        /\ call = [op |-> "get_ingestion", id |-> i, before |-> "in_progress"]
        /\ ingestions[i].steps = <<"completed", "completed", "in_progress", "pending">>

\* C8: once the status of a record is canceled or completed, no step of the
\* store sets it back to in_progress.
C8_NeverBackToInProgress ==
    [][\A i \in IngestionIds :
        (known(i) /\ ingestions[i].status \in Terminal)
        => ingestions'[i].status # "in_progress"]_vars

\* C8 witness: a get_ingestion less than 50 s after the start on a record
\* that was canceled: it is still canceled.
C8_Witness ==
    \E i \in IngestionIds :
        /\ known(i)
        /\ call = [op |-> "get_ingestion", id |-> i, before |-> "canceled"]
        /\ elapsed_of(i) < 50 * TicksPerSecond
        /\ ingestions[i].status = "canceled"

\* C9: in every state of the store, an asset of a record has selected = true
\* if and only if its id is in the record's selected_asset_ids.
C9_SelectionRepresentationsAgree ==
    \A i \in IngestionIds :
        known(i) =>
            \A asset \in assets_of(ingestions[i]) :
                asset.selected <=> asset.id \in ingestions[i].selected_asset_ids

\* C10: record_selection on a known record replaces the selection: afterwards
\* selected_asset_ids holds exactly the ids of the list, an asset is selected
\* exactly when the list names it, and the returned set is that set.
C10_SelectionReplaced ==
    [][\A i \in IngestionIds : \A ids \in SelectionInputs :
        (RecordSelection(i, ids) /\ known(i))
        => LET named(x) == \E n \in 1..Len(ids) : ids[n] = x
           IN  /\ \A x \in ingestions'[i].selected_asset_ids : named(x)
               /\ \A n \in 1..Len(ids) : ids[n] \in ingestions'[i].selected_asset_ids
               /\ \A asset \in assets_of(ingestions'[i]) : asset.selected <=> named(asset.id)
               /\ ret' = ingestions'[i].selected_asset_ids]_vars

\* C10 witness: record_selection with products_2_s1 and an unknown id on a
\* record of store s1: both ids are in the set, products_2_s1 is the only
\* asset selected.
C10_Witness ==
    \E i \in IngestionIds :
        /\ known(i)
        /\ call.op = "record_selection"
        /\ call.id = i
        /\ ingestions[i].store_id = "s1"
        /\ ingestions[i].selected_asset_ids = {AssetId("products", "2", "s1"), <<"ghost">>}
        /\ ret = ingestions[i].selected_asset_ids
        /\ \A asset \in assets_of(ingestions[i]) :
              asset.selected <=> asset.id = AssetId("products", "2", "s1")

\* C11: finalize_ingestion on a known record, whatever its status and the
\* elapsed time, leaves it with status completed, progress 100, 0 seconds
\* remaining and every step completed.
C11_FinalizeCompletes ==
    [][\A i \in IngestionIds :
        (FinalizeIngestion(i) /\ known(i))
        => /\ ingestions'[i].status = "completed"
           /\ ingestions'[i].progress = 100
           /\ ingestions'[i].estimated_seconds_remaining = 0
           /\ \A n \in DOMAIN ingestions'[i].steps :
                 ingestions'[i].steps[n] = "completed"]_vars

\* C11 witness: a finalize_ingestion found the record canceled with a
\* canceled step and left it completed.
C11_Witness ==
    \E i \in IngestionIds :
        /\ call = [op |-> "finalize_ingestion", id |-> i, before |-> "canceled"]
        /\ ingestions[i].status = "completed"
        /\ ingestions[i].progress = 100
        /\ ingestions[i].steps = <<"completed", "completed", "completed", "completed">>

\* The positions <<group, place>> of the assets of a record that are named by
\* its id set or carry the selected flag.
promoted_positions(record) ==
    {p \in (DOMAIN record.asset_groups) \X (1..Len(variants)) :
        LET asset == record.asset_groups[p[1]].assets[p[2]]
        IN  asset.id \in record.selected_asset_ids \/ asset.selected}

\* The selection of the record is still the one start_ingestion made.
selection_untouched(record) ==
    /\ record.selected_asset_ids = {}
    /\ record.asset_groups = build_ingestion_assets(record.store_id)

\* C12: finalize_ingestion on a known record returns as totalAssets the number
\* of assets of the record that are in the id set or flagged selected;
\* afterwards each of them is in the catalog under its id, with the record's
\* store id and the id of its group as category; with the selection
\* start_ingestion made the count is 4, at any elapsed time.
C12_FinalizePromotes ==
    [][\A i \in IngestionIds :
        (FinalizeIngestion(i) /\ known(i))
        => LET record == ingestions[i]
           IN  /\ ret'.totalAssets = Cardinality(promoted_positions(record))
               /\ \A p \in promoted_positions(record) :
                     LET asset == record.asset_groups[p[1]].assets[p[2]]
                     IN  /\ asset.id \in DOMAIN assets'
                         /\ assets'[asset.id].id = asset.id
                         /\ assets'[asset.id].storeId = record.store_id
                         /\ assets'[asset.id].category = record.asset_groups[p[1]].id
               /\ selection_untouched(record) => ret'.totalAssets = 4]_vars

\* C12 witness: a finalize_ingestion 20 s after the start of a record of
\* store s3 whose selection was never changed returned 4, and the first logo
\* candidate is in the catalog as a logo of s3.
C12_Witness ==
    \E i \in IngestionIds :
        /\ call = [op |-> "finalize_ingestion", id |-> i, before |-> "in_progress"]
        /\ selection_untouched(ingestions[i])
        /\ ingestions[i].store_id = "s3"
        /\ elapsed_of(i) = 20 * TicksPerSecond
        /\ ret = [assetLibraryId |-> "library_default", totalAssets |-> 4]
        /\ AssetId("logo", "1", "s3") \in DOMAIN assets
        /\ assets[AssetId("logo", "1", "s3")] =
              [id |-> AssetId("logo", "1", "s3"), category |-> "logo", storeId |-> "s3"]

\* The job map of the kind after the step.
job_map_after(kind) == IF kind = "poster" THEN poster_jobs' ELSE menu_board_jobs'

\* Seconds elapsed since the job was created, in ticks.
job_elapsed_of(kind, job_id) == now - job_map(kind)[job_id].createdAt

\* C15: get_poster_job and get_menu_board_job on a queued or running job set
\* the status from the elapsed time alone: queued up to and including 2 s,
\* running after 2 s up to and including 10 s, succeeded with a resultUrl
\* after 10 s; the same for both kinds of job.
C15_JobThresholds ==
    [][\A k \in JobKinds : \A j \in JobIds[k] :
        (GetJob(k, j) /\ job_status_of(k, j) \in {"queued", "running"})
        => LET elapsed == job_elapsed_of(k, j)
               job == job_map_after(k)[j]
           IN  /\ elapsed <= 2 * TicksPerSecond => job.status = "queued"
               /\ (elapsed > 2 * TicksPerSecond /\ elapsed <= 10 * TicksPerSecond)
                     => job.status = "running"
               /\ elapsed > 10 * TicksPerSecond
                     => job.status = "succeeded" /\ job.resultUrl # None]_vars

\* C15 witness: a get_menu_board_job exactly 10 s after the job was created
\* left it running, without a resultUrl.
C15_Witness ==
    \E j \in JobIds.menu :
        /\ call = [op |-> "get_menu_board_job", id |-> j, before |-> "running"]
        /\ job_elapsed_of("menu", j) = 10 * TicksPerSecond
        /\ menu_board_jobs[j].status = "running"
        /\ menu_board_jobs[j].resultUrl = None

\* C16: once a job is succeeded or failed, no step of the store (a get or a
\* save of any job, at any clock value) changes its status or its resultUrl.
C16_JobTerminalFrozen ==
    [][\A k \in JobKinds : \A j \in JobIds[k] :
        job_status_of(k, j) \in {"succeeded", "failed"}
        => /\ job_map_after(k)[j].status = job_map(k)[j].status
           /\ job_map_after(k)[j].resultUrl = job_map(k)[j].resultUrl]_vars

\* C16 witness: a get_poster_job more than 10 s after the job was created
\* found it failed and left it failed, without a resultUrl.
C16_Witness ==
    \E j \in JobIds.poster :
        /\ call = [op |-> "get_poster_job", id |-> j, before |-> "failed"]
        /\ job_elapsed_of("poster", j) > 10 * TicksPerSecond
        /\ poster_jobs[j].status = "failed"
        /\ poster_jobs[j].resultUrl = None

\* C17: a save of a known job that has not succeeded answers job_not_ready,
\* marks the job failed with the error text, leaves its resultUrl and the catalog as
\* they were; a save of a succeeded job adds one asset to the catalog, returns
\* its id and leaves the job's status, resultUrl and error as they were.
C17_SaveJob ==
    [][\A k \in JobKinds : \A j \in JobIds[k] :
        (SaveJob(k, j) /\ job_known(k, j))
        => LET before == job_map(k)[j]
               job == job_map_after(k)[j]
           IN  IF before.status # "succeeded"
               THEN /\ ret' = [error |-> "job_not_ready"]
                    /\ job.status = "failed"
                    /\ job.error = "Job is not finished yet."
                    /\ job.resultUrl = before.resultUrl
                    /\ assets' = assets
               ELSE /\ DOMAIN ret' = {"assetId"}
                    /\ ret'.assetId \notin DOMAIN assets
                    /\ DOMAIN assets' = DOMAIN assets \cup {ret'.assetId}
                    /\ assets'[ret'.assetId].id = ret'.assetId
                    /\ \A a \in DOMAIN assets : assets'[a] = assets[a]
                    /\ job.status = before.status
                    /\ job.resultUrl = before.resultUrl
                    /\ job.error = before.error]_vars

\* C17 witness: the succeeded poster job has been saved as the first new asset
\* of the catalog, and a save_menu_board_job that found its job running
\* answered job_not_ready and left it failed.
C17_Witness ==
    \E p \in JobIds.poster : \E j \in JobIds.menu :
        /\ call = [op |-> "save_menu_board_job", id |-> j, before |-> "running"]
        /\ ret = [error |-> "job_not_ready"]
        /\ menu_board_jobs[j].status = "failed"
        /\ menu_board_jobs[j].error = "Job is not finished yet."
        /\ menu_board_jobs[j].resultUrl = None
        /\ poster_jobs[p] # NoRecord
        /\ poster_jobs[p].status = "succeeded"
        /\ poster_jobs[p].resultUrl = result_url(p)
        /\ fresh_asset_id(seed_assets) \in DOMAIN assets
        /\ assets[fresh_asset_id(seed_assets)].category = "poster"

\* C13: finalize_ingestion is idempotent: when the last call was a
\* finalize_ingestion on a known record and the next call is one on the same
\* record, the second returns the same totalAssets and leaves the record, the
\* catalog and the user-store links as the first left them.
C13_FinalizeIdempotent ==
    [][\A i \in IngestionIds :
        (/\ call.op = "finalize_ingestion"
         /\ call.id = i
         /\ call.before # "none"
         /\ FinalizeIngestion(i))
        => /\ ret'.totalAssets = ret.totalAssets
           /\ ingestions' = ingestions
           /\ assets' = assets
           /\ user_store_links' = user_store_links]_vars

\* C13 witness: 8 s after the start of a record of store s3, where only a
\* finalize_ingestion can have completed it, a finalize_ingestion found it
\* completed; two users have links, each with s3 in them once, and the call
\* returned 4 for the selection start_ingestion made.
C13_Witness ==
    \E i \in IngestionIds :
        /\ call = [op |-> "finalize_ingestion", id |-> i, before |-> "completed"]
        /\ elapsed_of(i) = progress_point(1) * TicksPerSecond
        /\ ingestions[i].store_id = "s3"
        /\ DOMAIN user_store_links = UserIds
        /\ \A u \in UserIds :
              Cardinality({n \in DOMAIN user_store_links[u] :
                              user_store_links[u][n] = "s3"}) = 1
        /\ selection_untouched(ingestions[i])
        /\ ret.totalAssets = 4

\* C14: after finalize_ingestion on a known record every user with user state
\* has the record's store id in their link list exactly once, the users with
\* state are the same as before, and every link a user had is still there.
C14_FinalizeLinksEveryUser ==
    [][\A i \in IngestionIds :
        (FinalizeIngestion(i) /\ known(i))
        => /\ DOMAIN user_store_links' = DOMAIN user_store_links
           /\ \A u \in DOMAIN user_store_links :
                 /\ Cardinality({n \in DOMAIN user_store_links'[u] :
                        user_store_links'[u][n] = ingestions[i].store_id}) = 1
                 /\ \A n \in DOMAIN user_store_links[u] :
                       \E k \in DOMAIN user_store_links'[u] :
                          user_store_links'[u][k] = user_store_links[u][n]]_vars

\* C14 witness: a finalize_ingestion on a record of store s3 has left user 1,
\* who had only the first store, with both, and user 2, who had unlinked every
\* store, with s3.
C14_Witness ==
    \E i \in IngestionIds :
        /\ call.op = "finalize_ingestion"
        /\ call.id = i
        /\ call.before # "none"
        /\ ingestions[i].store_id = "s3"
        /\ DOMAIN user_store_links = UserIds
        /\ user_store_links[1] = <<"s1", "s3">>
        /\ user_store_links[2] = <<"s3">>

\* The step leaves every record, the catalog and the links as they were.
store_unchanged ==
    UNCHANGED <<ingestions, poster_jobs, menu_board_jobs, assets, user_store_links>>

\* C18: get_ingestion, cancel_ingestion, record_selection, finalize_ingestion,
\* get_*_job and the save of a job, called with an id that is not in the map
\* they look in, give the not-found outcome (None from the store, job_not_found
\* from the save views) and leave every ingestion record, every job, the
\* catalog and the user-store links as they were.
C18_UnknownIdNotFound ==
    [][/\ \A i \in AskedIngestionIds :
            ~known(i)
            => /\ GetIngestion(i) => (ret' = None /\ store_unchanged)
               /\ CancelIngestion(i) => (ret' = None /\ store_unchanged)
               /\ \A ids \in SelectionInputs :
                     RecordSelection(i, ids) => (ret' = None /\ store_unchanged)
               /\ FinalizeIngestion(i) => (ret' = None /\ store_unchanged)
       /\ \A k \in JobKinds : \A j \in AskedJobIds[k] :
            ~job_known(k, j)
            => /\ GetJob(k, j) => (ret' = None /\ store_unchanged)
               /\ SaveJob(k, j)
                     => (ret' = [error |-> "job_not_found"] /\ store_unchanged)]_vars

\* C18 witness: with a record, a succeeded poster job, an asset saved from it
\* and a user in the store, a save of a poster job id that was never given has
\* been answered job_not_found.
C18_Witness ==
    /\ call = [op |-> "save_poster_job", id |-> "poster_job_0", before |-> "none"]
    /\ ret = [error |-> "job_not_found"]
    /\ poster_jobs["poster_job_0"] = NoRecord
    /\ poster_jobs["poster_job_1"] # NoRecord
    /\ poster_jobs["poster_job_1"].status = "succeeded"
    /\ fresh_asset_id(seed_assets) \in DOMAIN assets
    /\ known("ing_1")
    /\ 1 \in DOMAIN user_store_links

\* C19: a selection request whose selectedAssetIds is not a list is answered
\* invalid_payload and changes nothing in the store (no record's id set, no
\* asset's selected flag), whether the ingestion id is known or not.
C19_NonListRejected ==
    [][\A i \in AskedIngestionIds : \A p \in SelectionPayloads :
        (p.kind # "list" /\ SelectionView(i, p))
        => /\ ret' = [error |-> "invalid_payload"]
           /\ ingestions' = ingestions
           /\ store_unchanged]_vars

\* C19 witness: a selection request without a list on a record in progress
\* whose id set a request before it had made of products_2_s1 and an unknown
\* id: answered invalid_payload, the id set still the same.
C19_Witness ==
    \E i \in IngestionIds :
        /\ call = [op |-> "post_selection", id |-> i, before |-> "in_progress"]
        /\ ret = [error |-> "invalid_payload"]
        /\ ingestions[i].selected_asset_ids = {AssetId("products", "2", "s1"), <<"ghost">>}
        /\ \A asset \in assets_of(ingestions[i]) : ~asset.selected

\* C20: recomputation is idempotent: the record a get_ingestion leaves, and
\* the job a get_poster_job or get_menu_board_job leaves, is the record or job
\* a second such call at the same clock value would leave: recomputing it at
\* that clock value changes no field.
C20_RecomputeIdempotent ==
    [][/\ \A i \in IngestionIds :
            (GetIngestion(i) /\ known(i))
            => refresh_ingestion_progress(ingestions'[i], now') = ingestions'[i]
       /\ \A k \in JobKinds : \A j \in JobIds[k] :
            (GetJob(k, j) /\ job_known(k, j))
            => progress_job(job_map_after(k)[j], now') = job_map_after(k)[j]]_vars

\* C20 witness: a get_ingestion exactly 8 s after the start, where the first
\* step ends, left the record in progress with the second step running; the
\* record is what a second read at this clock value leaves, and so is the
\* running menu board job.
C20_Witness ==
    \E i \in IngestionIds : \E j \in JobIds.menu :
        /\ call = [op |-> "get_ingestion", id |-> i, before |-> "in_progress"]
        /\ elapsed_of(i) = progress_point(1) * TicksPerSecond
        /\ ingestions[i].steps = <<"completed", "in_progress", "pending", "pending">>
        /\ ret = ingestions[i]
        /\ refresh_ingestion_progress(ingestions[i], now) = ingestions[i]
        /\ menu_board_jobs[j] # NoRecord
        /\ menu_board_jobs[j].status = "running"
        /\ progress_job(menu_board_jobs[j], now) = menu_board_jobs[j]

\* floor(e / 50 * 100) and ceil(50 - e) in exact arithmetic, e in ticks.
exact_floor_percent(elapsed) == (elapsed * 100) \div (total_time * TicksPerSecond)
exact_ceil_remaining(elapsed) ==
    (total_time * TicksPerSecond - elapsed + TicksPerSecond - 1) \div TicksPerSecond

\* C21: get_ingestion on an in_progress record at an elapsed time e below 50 s,
\* whole or not, sets progress = min(95, floor(e / 50 * 100)) and
\* estimated_seconds_remaining = max(10, ceil(50 - e)).
C21_ProgressAndRemainingFormula ==
    [][\A i \in IngestionIds :
        (/\ GetIngestion(i)
         /\ status_of(i) = "in_progress"
         /\ elapsed_of(i) < total_time * TicksPerSecond)
        => /\ ingestions'[i].progress = Min(95, exact_floor_percent(elapsed_of(i)))
           /\ ingestions'[i].estimated_seconds_remaining
                 = Max(10, exact_ceil_remaining(elapsed_of(i)))]_vars

\* C22: in every state a record that is in_progress has progress at most 95
\* and at least 10 seconds remaining.
C22_RunningWithinCaps ==
    \A i \in IngestionIds :
        (known(i) /\ ingestions[i].status = "in_progress")
        => /\ ingestions[i].progress <= 95
           /\ ingestions[i].estimated_seconds_remaining >= 10

\* C22 witness: a get_ingestion half a second before the end left the record
\* in_progress at 95 with 10 seconds remaining.
C22_Witness ==
    \E i \in IngestionIds :
        /\ call = [op |-> "get_ingestion", id |-> i, before |-> "in_progress"]
        /\ elapsed_of(i) = total_time * TicksPerSecond - 1
        /\ ingestions[i].status = "in_progress"
        /\ ingestions[i].progress = 95
        /\ ingestions[i].estimated_seconds_remaining = 10

\* The progress shown from the end of step k on: 16, 36, 60.
progress_at_cutoff(k) == (progress_points[k] * 100) \div total_time

\* C23: the record a get_ingestion returns in_progress has steps and progress
\* that agree: each of the first three steps is completed exactly when the
\* progress is at least 16, 36, 60; the step after the last completed one is
\* in_progress and every later step is pending.
C23_StepsAgreeWithProgress ==
    [][\A i \in IngestionIds :
        (GetIngestion(i) /\ known(i) /\ ingestions'[i].status = "in_progress")
        => LET record == ingestions'[i]
               done == {k \in DOMAIN record.steps : record.steps[k] = "completed"}
           IN  /\ \A k \in 1..(Len(progress_points) - 1) :
                     k \in done <=> record.progress >= progress_at_cutoff(k)
               /\ \A k \in DOMAIN record.steps :
                     record.steps[k] =
                        IF k <= Cardinality(done) THEN "completed"
                        ELSE IF k = Cardinality(done) + 1 THEN "in_progress"
                        ELSE "pending"]_vars

\* C23 witness: a get_ingestion exactly 18 s after the start: two steps
\* completed, the third in_progress, progress 36.
C23_Witness ==
    \E i \in IngestionIds :
        /\ call = [op |-> "get_ingestion", id |-> i, before |-> "in_progress"]
        /\ elapsed_of(i) = progress_points[2] * TicksPerSecond
        /\ ingestions[i].steps = <<"completed", "completed", "in_progress", "pending">>
        /\ ingestions[i].progress = 36

\* C24: cancel_ingestion on a record that is already completed or canceled
\* leaves its status, progress, remaining seconds and steps as they were.
C24_CancelOnlyInProgress ==
    [][\A i \in IngestionIds :
        (CancelIngestion(i) /\ status_of(i) \in Terminal)
        => /\ ingestions'[i].status = ingestions[i].status
           /\ ingestions'[i].progress = ingestions[i].progress
           /\ ingestions'[i].estimated_seconds_remaining
                 = ingestions[i].estimated_seconds_remaining
           /\ ingestions'[i].steps = ingestions[i].steps]_vars

\* C26: in every state a completed record has progress 100, 0 seconds
\* remaining and every step completed, and a canceled record has progress at
\* most 80, 0 seconds remaining and no step in_progress.
C26_StatusDeterminesSummary ==
    \A i \in IngestionIds :
        known(i)
        => /\ ingestions[i].status = "completed"
                 => /\ ingestions[i].progress = 100
                    /\ ingestions[i].estimated_seconds_remaining = 0
                    /\ \A k \in DOMAIN ingestions[i].steps :
                          ingestions[i].steps[k] = "completed"
           /\ ingestions[i].status = "canceled"
                 => /\ ingestions[i].progress <= 80
                    /\ ingestions[i].estimated_seconds_remaining = 0
                    /\ \A k \in DOMAIN ingestions[i].steps :
                          ingestions[i].steps[k] # "in_progress"

\* C26 witness: a cancel_ingestion on a record in_progress that a read had
\* left at more than 80: canceled at 80, nothing remaining, the last step
\* canceled.
C26_Witness ==
    \E i \in IngestionIds :
        /\ call = [op |-> "cancel_ingestion", id |-> i, before |-> "in_progress"]
        /\ ingestions[i].status = "canceled"
        /\ ingestions[i].progress = 80
        /\ ingestions[i].estimated_seconds_remaining = 0
        /\ ingestions[i].steps = <<"completed", "completed", "completed", "canceled">>

\* C27: in every state the steps of a record read, in order: completed steps,
\* then at most one step in_progress or canceled, then pending steps.
C27_StepsInScheduleOrder ==
    \A i \in IngestionIds :
        known(i)
        => LET steps == ingestions[i].steps
           IN  \E n \in 0..Len(steps) :
                  /\ \A k \in 1..n : steps[k] = "completed"
                  /\ \A k \in (n + 1)..Len(steps) :
                        IF k = n + 1
                        THEN steps[k] \in {"in_progress", "canceled", "pending"}
                        ELSE steps[k] = "pending"

\* C27 witness: a record canceled during its second step: completed,
\* canceled, pending, pending.
C27_Witness ==
    \E i \in IngestionIds :
        /\ known(i)
        /\ ingestions[i].status = "canceled"
        /\ ingestions[i].steps = <<"completed", "canceled", "pending", "pending">>

\* C28: in every state a job of either kind has a resultUrl exactly when it
\* is succeeded (then the address ending in its id), and an error exactly when
\* it is failed (then the text the save wrote).
C28_JobFieldsFollowStatus ==
    \A k \in JobKinds : \A j \in JobIds[k] :
        job_known(k, j)
        => LET job == job_map(k)[j]
           IN  /\ IF job.status = "succeeded"
                  THEN job.resultUrl = result_url(j)
                  ELSE job.resultUrl = None
               /\ IF job.status = "failed"
                  THEN job.error = "Job is not finished yet."
                  ELSE job.error = None

\* C28 witness: the poster job is succeeded with its resultUrl and no error
\* while the menu board job, saved too early, is failed with the error and no
\* resultUrl.
C28_Witness ==
    \E p \in JobIds.poster : \E j \in JobIds.menu :
        /\ job_known("poster", p)
        /\ job_known("menu", j)
        /\ poster_jobs[p].status = "succeeded"
        /\ poster_jobs[p].resultUrl = result_url(p)
        /\ poster_jobs[p].error = None
        /\ menu_board_jobs[j].status = "failed"
        /\ menu_board_jobs[j].resultUrl = None
        /\ menu_board_jobs[j].error = "Job is not finished yet."

\* C29: the save of a job and cancel_ingestion act on the record as it was
\* last recomputed: a job older than 10 s that is still queued or running in
\* the map is marked failed by a save, and a failed job never becomes
\* succeeded; a record older than 50 s that is still in_progress in the map
\* is made canceled by cancel_ingestion.
C29_SaveAndCancelIgnoreClock ==
    [][/\ \A k \in JobKinds : \A j \in JobIds[k] :
            /\ (/\ SaveJob(k, j)
                /\ job_status_of(k, j) \in {"queued", "running"}
                /\ job_elapsed_of(k, j) > 10 * TicksPerSecond)
               => /\ job_map_after(k)[j].status = "failed"
                  /\ ret' = [error |-> "job_not_ready"]
            /\ job_status_of(k, j) = "failed"
               => job_map_after(k)[j].status = "failed"
       /\ \A i \in IngestionIds :
            (/\ CancelIngestion(i)
             /\ status_of(i) = "in_progress"
             /\ elapsed_of(i) > total_time * TicksPerSecond)
            => ingestions'[i].status = "canceled"]_vars

\* C29 witness: more than 50 s after its start a record never read (progress
\* still 5) has been canceled by cancel_ingestion, and the poster job, never
\* read either (no resultUrl) and older than 10 s, is failed.
C29_Witness ==
    \E i \in IngestionIds : \E p \in JobIds.poster :
        /\ call = [op |-> "cancel_ingestion", id |-> i, before |-> "in_progress"]
        /\ elapsed_of(i) > total_time * TicksPerSecond
        /\ ingestions[i].status = "canceled"
        /\ ingestions[i].progress = 5
        /\ ingestions[i].steps = <<"canceled", "pending", "pending", "pending">>
        /\ job_known("poster", p)
        /\ job_elapsed_of("poster", p) > 10 * TicksPerSecond
        /\ poster_jobs[p].status = "failed"
        /\ poster_jobs[p].resultUrl = None

\* C25: when a get_ingestion and a cancel_ingestion on the same record have
\* both finished, however their statements were interleaved, the record is
\* canceled with progress at most 80, 0 seconds remaining and no step
\* in_progress.
C25_CancelTerminalUnderRace ==
    \A i \in IngestionIds :
        (known(i) /\ requests.get.pc = "done" /\ requests.cancel.pc = "done")
        => /\ ingestions[i].status = "canceled"
           /\ ingestions[i].progress <= 80
           /\ ingestions[i].estimated_seconds_remaining = 0
           /\ \A k \in DOMAIN ingestions[i].steps :
                 ingestions[i].steps[k] # "in_progress"

\* The statuses a job does not leave.
JobTerminal == {"succeeded", "failed"}

\* C30: when the clock keeps advancing and the reads keep being made, every
\* record that exists eventually has a status other than in_progress and
\* every job that exists is eventually succeeded or failed; once there,
\* neither has a status outside its terminal statuses again.
C30_EventuallyTerminal ==
    /\ \A i \in IngestionIds : known(i) ~> (status_of(i) \in Terminal)
    /\ \A k \in JobKinds : \A j \in JobIds[k] :
          job_known(k, j) ~> (job_status_of(k, j) \in JobTerminal)
    /\ [][/\ \A i \in IngestionIds :
               status_of(i) \in Terminal => ingestions'[i].status \in Terminal
          /\ \A k \in JobKinds : \A j \in JobIds[k] :
               job_status_of(k, j) \in JobTerminal
               => job_map_after(k)[j].status \in JobTerminal]_vars

\* C30 witness: a get_ingestion 50 s or more after the start found the record
\* in_progress and completed it; both jobs are there, the poster job
\* succeeded by a read and the menu board job failed by a save.
C30_Witness ==
    \E i \in IngestionIds : \E p \in JobIds.poster : \E j \in JobIds.menu :
        /\ call = [op |-> "get_ingestion", id |-> i, before |-> "in_progress"]
        /\ elapsed_of(i) >= total_time * TicksPerSecond
        /\ ingestions[i].status = "completed"
        /\ job_status_of("poster", p) = "succeeded"
        /\ job_status_of("menu", j) = "failed"

====
